---- MODULE Spec2Model ----
(***************************************************************************)
(* Model of the twitter pun archiver (src/pun-archiver.py, src/utils.py).  *)
(*                                                                         *)
(* A Python str is a sequence of code points; each code point is a         *)
(* one-element string here ("a", "\n", "\t") and Emoji stands for one code *)
(* point outside the Basic Multilingual Plane.  The destination document   *)
(* is the sequence of UTF-16 code units the Docs service indexes, the unit *)
(* at document index p being doc[p].                                       *)
(***************************************************************************)
EXTENDS Integers, Sequences, FiniteSets

VARIABLES
    tweets,        \* the account's timeline, oldest first; ids grow with time
    envId,         \* LAST_SEEN_TWEET_ID as persisted in .env (0: not set)
    envRunDate,    \* LAST_RUN_DATE as persisted in .env
    nowYear,       \* the calendar year of the clock
    doc,           \* the destination document
    pc,            \* position of the running script ("idle": no run)
    last_seen_id,  \* main's local, read from LAST_SEEN_TWEET_ID at start
    last_run_date, \* utils.LAST_RUN_DATE, read from .env at import
    now,           \* doc_update_year's local: the year of datetime.now()
    user_tweets,   \* the response of get_tweets
    i,             \* position of the for loop in reversed(user_tweets["data"])
    log,           \* the document requests and watermark saves of this run
    stdout,        \* the lines this run printed
    exit,          \* how the last run ended
    inserted,      \* per tweet id, the successful text inserts over all runs
    runs,          \* runs started
    failures,      \* external calls that raised
    credentials,   \* whether the Twitter credentials in .env are valid
    abandoned,     \* ids of the puns the last aborted run left unsaved
    tStage,        \* text pipeline: stage reached
    tText,         \* text pipeline: the tweet text
    tCreated,      \* text pipeline: the tweet's created_at
    tResult,       \* text pipeline: pun_format_regex.match(text)
    tFormatted,    \* text pipeline: format_tweet(...)
    tDoc           \* text pipeline: the document after doc_add_text(.., 6, ..)

runVars == <<tweets, envId, envRunDate, nowYear, doc, pc, last_seen_id,
             last_run_date, now, user_tweets, i, log, stdout, exit, inserted,
             runs, failures, credentials, abandoned>>
textVars == <<tStage, tText, tCreated, tResult, tFormatted, tDoc>>
vars == <<runVars, textVars>>

----------------------------------------------------------------------------
(* Bounds *)

MaxLen == 5          \* longest enumerated tweet text, in code points
MaxTweets == 3       \* tweets the account posts
MaxRuns == 2         \* runs of the script
MaxFailures == 1     \* external calls that raise

----------------------------------------------------------------------------
(* Strings *)

Emoji == "U+1F600"
HighSurrogate == "\\uD83D"
LowSurrogate == "\\uDE00"

Alphabet == {"a", "b", "\n", "\t", Emoji}

Max(S) == CHOOSE x \in S : \A y \in S : y <= x

\* len(str): the number of code points
len(s) == Len(s)

\* The UTF-16 code units of one code point, as the document stores them.
Utf16(c) == IF c = Emoji THEN <<HighSurrogate, LowSurrogate>> ELSE <<c>>

RECURSIVE Utf16Text(_)
Utf16Text(s) == IF s = <<>> THEN <<>> ELSE Utf16(Head(s)) \o Utf16Text(Tail(s))

\* str.split("\n")
RECURSIVE SplitLines(_)
SplitLines(s) ==
    IF \A p \in 1..Len(s) : s[p] # "\n"
    THEN <<s>>
    ELSE LET p == CHOOSE q \in 1..Len(s) :
                      s[q] = "\n" /\ \A r \in 1..(q - 1) : s[r] # "\n"
         IN  <<SubSeq(s, 1, p - 1)>> \o SplitLines(SubSeq(s, p + 1, Len(s)))

Digit(n) == <<"0", "1", "2", "3", "4", "5", "6", "7", "8", "9">>[n + 1]

\* created_at.strftime("%m/%d/%Y")
strftime(created_at) ==
    <<Digit(created_at.month \div 10), Digit(created_at.month % 10), "/",
      Digit(created_at.day \div 10), Digit(created_at.day % 10), "/",
      Digit((created_at.year \div 1000) % 10),
      Digit((created_at.year \div 100) % 10),
      Digit((created_at.year \div 10) % 10),
      Digit(created_at.year % 10)>>

\* str(now.year) + '\n'
YearStr(y) ==
    <<Digit((y \div 1000) % 10), Digit((y \div 100) % 10),
      Digit((y \div 10) % 10), Digit(y % 10), "\n">>

----------------------------------------------------------------------------
(* pun_format_regex = re.compile(r"(.+)\n\n(.+$)"), used with .match *)

ITALICS_OFFSET == 9

\* `.` without re.DOTALL: any character but a newline
DotAll(c) == TRUE
Dot(c) == c # "\n"

\* `$` without re.MULTILINE: the end of the string, or just before a newline
\* that ends the string
AtDollar(s, pos) == pos = Len(s) + 1 \/ (pos = Len(s) /\ s[pos] = "\n")

Pattern ==
    <<[t |-> "plus", g |-> 1], [t |-> "lit", c |-> "\n"], [t |-> "lit", c |-> "\n"],
      [t |-> "plus", g |-> 2], [t |-> "eos"]>>

NoMatch == [matched |-> FALSE, group1 |-> <<>>, group2 |-> <<>>]

\* The longest run of `.` characters from pos
RECURSIVE DotRun(_, _)
DotRun(s, pos) ==
    IF pos <= Len(s) /\ Dot(s[pos]) THEN 1 + DotRun(s, pos + 1) ELSE 0

\* Backtracking match of Pattern[ti..] at pos; a greedy `.+` tries its
\* longest span first and gives back one character at a time.
RECURSIVE MatchAt(_, _, _, _)
RECURSIVE MatchPlus(_, _, _, _, _)
MatchAt(s, ti, pos, caps) ==
    IF ti > Len(Pattern)
    THEN [matched |-> TRUE, group1 |-> caps[1], group2 |-> caps[2]]
    ELSE LET tok == Pattern[ti]
         IN  CASE tok.t = "lit" ->
                    IF pos <= Len(s) /\ s[pos] = tok.c
                    THEN MatchAt(s, ti + 1, pos + 1, caps)
                    ELSE NoMatch
               [] tok.t = "plus" -> MatchPlus(s, ti, pos, DotRun(s, pos), caps)
               [] tok.t = "eos" ->
                    IF AtDollar(s, pos) THEN MatchAt(s, ti + 1, pos, caps)
                    ELSE NoMatch
MatchPlus(s, ti, pos, n, caps) ==
    IF n < 1
    THEN NoMatch
    ELSE LET r == MatchAt(s, ti + 1, pos + n,
                          [caps EXCEPT ![Pattern[ti].g] = SubSeq(s, pos, pos + n - 1)])
         IN  IF r.matched THEN r ELSE MatchPlus(s, ti, pos, n - 1, caps)

\* pun_format_regex.match(text): anchored at the start of the text
pun_format_regex_match(text) == MatchAt(text, 1, 1, <<<<>>, <<>>>>)

----------------------------------------------------------------------------
(* Formatter and the ranges archive_tweets sends *)

format_tweet_no_tab(date, setup, punchline) ==
    date \o <<"\n">> \o setup \o <<"\n">> \o punchline \o <<"\n", "\n">>
format_tweet(date, setup, punchline) ==
    date \o <<"\n">> \o setup \o <<"\n", "\t">> \o punchline \o <<"\n", "\n">>

\* doc_format_text(6, len(date + tweet_setup + tweet_punchline) + ITALICS_OFFSET, ..)
ParagraphRange(date, setup, punchline) ==
    [startIndex |-> 6, endIndex |-> len(date \o setup \o punchline) + ITALICS_OFFSET]

\* doc_italicize_punchline(len(date + tweet_setup) + ITALICS_OFFSET,
\*     len(date + tweet_setup + tweet_punchline) + ITALICS_OFFSET, ..)
ItalicRange(date, setup, punchline) ==
    [startIndex |-> len(date \o setup) + ITALICS_OFFSET,
     endIndex |-> len(date \o setup \o punchline) + ITALICS_OFFSET]

----------------------------------------------------------------------------
(* The destination document.  Each unit carries its text style (italic)    *)
(* and the named style of its paragraph.                                   *)

Unit(c, italic, named) == [c |-> c, italic |-> italic, named |-> named]

\* insertText: the request is refused unless the index lies inside the body
InsertOk(d, idx) == idx >= 1 /\ idx <= Len(d)

\* insertText that puts the text at the end of the body, whatever the index
InsertTextAtEnd(d, text, idx) ==
    LET units == Utf16Text(text)
        new == [p \in 1..Len(units) |-> Unit(units[p], d[idx].italic, d[idx].named)]
    IN  SubSeq(d, 1, Len(d) - 1) \o new \o SubSeq(d, Len(d), Len(d))

\* insertText at idx: the new text takes the text style of the unit before
\* the index and the paragraph style of the paragraph at the index.
InsertText(d, text, idx) ==
    LET italic == IF idx > 1 THEN d[idx - 1].italic ELSE d[idx].italic
        named == d[idx].named
        units == Utf16Text(text)
        new == [p \in 1..Len(units) |-> Unit(units[p], italic, named)]
    IN  SubSeq(d, 1, idx - 1) \o new \o SubSeq(d, idx, Len(d))

RangeOk(d, range) ==
    /\ range.startIndex >= 1
    /\ range.startIndex < range.endIndex
    /\ range.endIndex <= Len(d) + 1

\* The paragraph of the unit at p: from after the previous newline through
\* the next newline.
ParaStart(d, p) ==
    LET before == {q \in 1..(p - 1) : d[q].c = "\n"}
    IN  IF before = {} THEN 1 ELSE Max(before) + 1
ParaEnd(d, p) ==
    LET after == {q \in p..Len(d) : d[q].c = "\n"}
    IN  IF after = {} THEN Len(d) ELSE CHOOSE q \in after : \A r \in after : q <= r

\* updateParagraphStyle NORMAL_TEXT: every paragraph overlapping the range
UpdateParagraphStyle(d, range) ==
    [p \in 1..Len(d) |->
        IF ParaStart(d, p) < range.endIndex /\ ParaEnd(d, p) >= range.startIndex
        THEN [d[p] EXCEPT !.named = "NORMAL_TEXT"]
        ELSE d[p]]

\* updateTextStyle italic: every unit of the range
UpdateTextStyle(d, range) ==
    [p \in 1..Len(d) |->
        IF p >= range.startIndex /\ p < range.endIndex
        THEN [d[p] EXCEPT !.italic = TRUE]
        ELSE d[p]]

DocText(d) == [p \in 1..Len(d) |-> d[p].c]

\* A document that holds the header of year y and the body's final newline.
HeaderDoc(y) ==
    LET h == YearStr(y)
    IN  [p \in 1..Len(h) |-> Unit(h[p], FALSE, "HEADING_1")]
        \o <<Unit("\n", FALSE, "NORMAL_TEXT")>>

----------------------------------------------------------------------------
(* Source collaborator *)

num_tweet_retrieve == 2
FirstYear == 2023
LastYear == FirstYear + 1

\* The texts of the account's posts; the setup of each names the post.
PunText(id) == <<Digit(id), "\n", "\n", "b">>
PlainText(id) == <<Digit(id), "b">>
\* What the account posts: a pun, a tweet that is no pun, a reply (never
\* fetched, whatever its text).
Posts(id) ==
    {[text |-> PunText(id), kind |-> "tweet"], [text |-> PlainText(id), kind |-> "tweet"],
     [text |-> PunText(id), kind |-> "reply"]}

None == "None"

\* tweepy.Client(...) builds a client object and performs no request
twt_auth_passed == "client"

RECURSIVE NewestFirst(_)
NewestFirst(S) ==
    IF S = {} THEN <<>>
    ELSE LET t == CHOOSE x \in S : \A y \in S : y.id <= x.id
         IN  <<t>> \o NewestFirst(S \ {t})

\* client.get_users_tweets(exclude = ["replies", "retweets"], max_results,
\* since_id): the newest max_results tweets of the account with an id greater
\* than since_id, newest first
get_users_tweets(timeline, exclude, max_results, since_id) ==
    LET found == {timeline[p] : p \in {q \in 1..Len(timeline) :
                      /\ timeline[q].kind \notin exclude
                      /\ timeline[q].id > since_id}}
        all == NewestFirst(found)
        data == SubSeq(all, 1, IF Len(all) < max_results THEN Len(all) ELSE max_results)
    IN  [data |-> data, meta |-> [result_count |-> Len(data)]]

get_tweets_no_since_id(timeline, last_seen_tweet_id, num) ==
    get_users_tweets(timeline, {"reply", "retweet"}, num, 0)
get_tweets(timeline, last_seen_tweet_id, num) ==
    get_users_tweets(timeline, {"reply", "retweet"}, num, last_seen_tweet_id)

NoResponse == [data |-> <<>>, meta |-> [result_count |-> 0]]

\* "meta" in user_tweets and user_tweets["meta"]["result_count"] == 0
NoNewTweetsNever(response) == FALSE
NoNewTweets(response) == response.meta.result_count = 0

not_reversed(data) == data
reversed(data) == [p \in 1..Len(data) |-> data[Len(data) + 1 - p]]

----------------------------------------------------------------------------
(* One run of the script *)

Request(op, id, text, startIndex, endIndex, ok) ==
    [op |-> op, id |-> id, text |-> text, startIndex |-> startIndex,
     endIndex |-> endIndex, ok |-> ok]

\* An external call either returns or raises; the raises are bounded.
MayRaise(ok) == ok \/ failures < MaxFailures

Raised ==
    /\ failures' = failures + 1
    /\ exit' = "exception"
    /\ pc' = "idle"

\* The tweet the for loop of archive_tweets is at
Tweet == reversed(user_tweets.data)[i]
Result == pun_format_regex_match(Tweet.text)
Date == strftime(Tweet.created_at)

\* The puns of the page the loop has not saved yet
Pending ==
    LET rev == reversed(user_tweets.data)
    IN  {rev[p].id : p \in {q \in (IF i = 0 THEN 1 ELSE i)..Len(rev) :
                               pun_format_regex_match(rev[q].text).matched}}

\* History: what a run that ends by an exception leaves behind
Abandon(ok) == abandoned' = IF ok THEN abandoned ELSE Pending

RunInit ==
    /\ tweets = <<>>
    /\ envId = 0
    /\ envRunDate = [year |-> FirstYear, month |-> 6, day |-> 1]
    /\ nowYear = FirstYear
    /\ doc = HeaderDoc(FirstYear)
    /\ pc = "idle"
    /\ last_seen_id = 0
    /\ last_run_date = [year |-> FirstYear, month |-> 6, day |-> 1]
    /\ now = FirstYear
    /\ user_tweets = NoResponse
    /\ i = 0
    /\ log = <<>>
    /\ stdout = <<>>
    /\ exit = "none"
    /\ inserted = [id \in 1..MaxTweets |-> 0]
    /\ runs = 0
    /\ failures = 0
    /\ credentials = "valid"
    /\ abandoned = {}

\* The account posts a tweet or a reply.
PostTweet ==
    /\ pc = "idle"
    /\ Len(tweets) < MaxTweets
    /\ \E post \in Posts(Len(tweets) + 1) :
          tweets' = Append(tweets,
              [id |-> Len(tweets) + 1, text |-> post.text, kind |-> post.kind,
               created_at |-> [year |-> nowYear, month |-> 12, day |-> 31]])
    /\ UNCHANGED <<envId, envRunDate, nowYear, doc, pc, last_seen_id,
                   last_run_date, now, user_tweets, i, log, stdout, exit, inserted,
                   runs, failures>>
    /\ UNCHANGED <<credentials, abandoned>>
    /\ UNCHANGED textVars

\* A new calendar year begins.
NewYear ==
    /\ pc = "idle"
    /\ nowYear < LastYear
    /\ nowYear' = nowYear + 1
    /\ UNCHANGED <<tweets, envId, envRunDate, doc, pc, last_seen_id,
                   last_run_date, now, user_tweets, i, log, stdout, exit, inserted,
                   runs, failures>>
    /\ UNCHANGED <<credentials, abandoned>>
    /\ UNCHANGED textVars

\* main, up to the call of archive_tweets; the import of utils reads
\* LAST_SEEN_TWEET_ID and LAST_RUN_DATE from .env.  The credentials of .env
\* are valid or not; get_users_tweets, the first request sent with them,
\* raises when they are not.
Main ==
    /\ pc = "idle"
    /\ runs < MaxRuns
    /\ runs' = runs + 1
    /\ last_seen_id' = envId
    /\ last_run_date' = envRunDate
    /\ log' = <<>>
    /\ i' = 0
    /\ abandoned' = IF exit = "return" THEN {} ELSE abandoned
    /\ credentials' \in {"valid", "invalid"}
    /\ IF twt_auth_passed = None
       THEN /\ exit' = "return 1"
            /\ pc' = "idle"
            /\ stdout' = <<>>
            /\ UNCHANGED <<user_tweets, failures>>
       ELSE \E ok \in BOOLEAN :
              /\ MayRaise(ok)
              /\ credentials' = "invalid" => ~ok
              /\ IF ~ok
                 THEN /\ Raised
                      /\ stdout' = <<"Last seen tweet ID">>
                      /\ user_tweets' = NoResponse
                 ELSE /\ user_tweets' = get_tweets(tweets, envId, num_tweet_retrieve)
                      /\ IF NoNewTweets(user_tweets')
                         THEN /\ stdout' = <<"Last seen tweet ID", "No new tweets found.">>
                              /\ exit' = "return"
                              /\ pc' = "idle"
                         ELSE /\ stdout' = <<"Last seen tweet ID">>
                              /\ exit' = "running"
                              /\ pc' = "doc_update_year"
                      /\ UNCHANGED failures
    /\ UNCHANGED <<tweets, envId, envRunDate, nowYear, now, doc, inserted>>
    /\ UNCHANGED textVars

\* last_run.year < now.year
NeedsYearHeaderOrSame(last_run, now_year) == last_run.year <= now_year
NeedsYearHeader(last_run, now_year) == last_run.year < now_year

\* doc_update_year, the first statement of archive_tweets
DocUpdateYear ==
    /\ pc = "doc_update_year"
    /\ now' = nowYear
    /\ IF NeedsYearHeader(last_run_date, now')
       THEN \E ok \in BOOLEAN :
              /\ MayRaise(ok)
              /\ Abandon(ok)
              /\ ok => InsertOk(doc, 1)
              /\ log' = Append(log, Request("insertText", 0, YearStr(now'), 1, 1, ok))
              /\ IF ok
                 THEN /\ doc' = InsertText(doc, YearStr(now'), 1)
                      /\ pc' = "loop"
                      /\ i' = 1
                      /\ UNCHANGED <<exit, failures>>
                 ELSE /\ Raised
                      /\ UNCHANGED <<doc, i>>
       ELSE /\ pc' = "loop"
            /\ i' = 1
            /\ UNCHANGED <<doc, log, exit, failures, abandoned>>
    /\ UNCHANGED <<tweets, envId, envRunDate, nowYear, last_seen_id,
                   last_run_date, user_tweets, stdout, inserted, runs>>
    /\ UNCHANGED credentials
    /\ UNCHANGED textVars

\* The tweet is no pun, and its id is saved all the same
ArchiveSkipSaves ==
    /\ pc = "loop"
    /\ i <= Len(user_tweets.data)
    /\ ~Result.matched
    /\ i' = i + 1
    /\ envId' = Tweet.id
    /\ UNCHANGED <<tweets, envRunDate, nowYear, doc, pc, last_seen_id,
                   last_run_date, now, user_tweets, log, stdout, exit, inserted,
                   runs, failures>>
    /\ UNCHANGED <<credentials, abandoned>>
    /\ UNCHANGED textVars

\* The tweet is no pun: continue
ArchiveSkip ==
    /\ pc = "loop"
    /\ i <= Len(user_tweets.data)
    /\ ~Result.matched
    /\ i' = i + 1
    /\ UNCHANGED <<tweets, envId, envRunDate, nowYear, doc, pc, last_seen_id,
                   last_run_date, now, user_tweets, log, stdout, exit, inserted,
                   runs, failures>>
    /\ UNCHANGED <<credentials, abandoned>>
    /\ UNCHANGED textVars

\* The loop is over: archive_tweets and main return.
ArchiveReturn ==
    /\ pc = "loop"
    /\ i > Len(user_tweets.data)
    /\ pc' = "idle"
    /\ exit' = "return"
    /\ UNCHANGED <<tweets, envId, envRunDate, nowYear, doc, last_seen_id,
                   last_run_date, now, user_tweets, i, log, stdout, inserted,
                   runs, failures>>
    /\ UNCHANGED <<credentials, abandoned>>
    /\ UNCHANGED textVars

\* Parse, log and format the pun; doc_add_text(formatted_tweet, 6, ..)
DocAddText ==
    /\ pc = "loop"
    /\ i <= Len(user_tweets.data)
    /\ Result.matched
    /\ LET formatted_tweet == format_tweet(Date, Result.group1, Result.group2)
       IN  \E ok \in BOOLEAN :
             /\ MayRaise(ok)
             /\ Abandon(ok)
             /\ ok => InsertOk(doc, 6)
             /\ stdout' = Append(stdout, "New tweet ID")
             /\ log' = Append(log, Request("insertText", Tweet.id, formatted_tweet, 6, 6, ok))
             /\ IF ok
                THEN /\ doc' = InsertText(doc, formatted_tweet, 6)
                     /\ inserted' = [inserted EXCEPT ![Tweet.id] = @ + 1]
                     /\ pc' = "doc_format_text"
                     /\ UNCHANGED <<exit, failures>>
                ELSE /\ Raised
                     /\ UNCHANGED <<doc, inserted>>
    /\ UNCHANGED <<tweets, envId, envRunDate, nowYear, last_seen_id,
                   last_run_date, now, user_tweets, i, runs>>
    /\ UNCHANGED credentials
    /\ UNCHANGED textVars

\* doc_format_text(6, len(date + setup + punchline) + ITALICS_OFFSET, ..)
DocFormatText ==
    /\ pc = "doc_format_text"
    /\ LET range == ParagraphRange(Date, Result.group1, Result.group2)
       IN  \E ok \in BOOLEAN :
             /\ MayRaise(ok)
             /\ Abandon(ok)
             /\ ok => RangeOk(doc, range)
             /\ log' = Append(log, Request("updateParagraphStyle", Tweet.id, <<>>,
                                           range.startIndex, range.endIndex, ok))
             /\ IF ok
                THEN /\ doc' = UpdateParagraphStyle(doc, range)
                     /\ pc' = "doc_italicize_punchline"
                     /\ UNCHANGED <<exit, failures>>
                ELSE /\ Raised
                     /\ UNCHANGED doc
    /\ UNCHANGED <<tweets, envId, envRunDate, nowYear, last_seen_id,
                   last_run_date, now, user_tweets, i, stdout, inserted, runs>>
    /\ UNCHANGED credentials
    /\ UNCHANGED textVars

\* doc_italicize_punchline with the error of the request swallowed
DocItalicizePunchlineSwallow ==
    /\ pc = "doc_italicize_punchline"
    /\ LET range == ItalicRange(Date, Result.group1, Result.group2)
       IN  \E ok \in BOOLEAN :
             /\ MayRaise(ok)
             /\ ok => RangeOk(doc, range)
             /\ log' = Append(log, Request("updateTextStyle", Tweet.id, <<>>,
                                           range.startIndex, range.endIndex, ok))
             /\ doc' = IF ok THEN UpdateTextStyle(doc, range) ELSE doc
             /\ failures' = IF ok THEN failures ELSE failures + 1
             /\ pc' = "save_last_seen_id"
             /\ UNCHANGED exit
    /\ UNCHANGED <<tweets, envId, envRunDate, nowYear, last_seen_id,
                   last_run_date, now, user_tweets, i, stdout, inserted, runs>>
    /\ UNCHANGED <<credentials, abandoned>>
    /\ UNCHANGED textVars

\* doc_italicize_punchline(len(date + setup) + ITALICS_OFFSET,
\*     len(date + setup + punchline) + ITALICS_OFFSET, ..)
DocItalicizePunchline ==
    /\ pc = "doc_italicize_punchline"
    /\ LET range == ItalicRange(Date, Result.group1, Result.group2)
       IN  \E ok \in BOOLEAN :
             /\ MayRaise(ok)
             /\ Abandon(ok)
             /\ ok => RangeOk(doc, range)
             /\ log' = Append(log, Request("updateTextStyle", Tweet.id, <<>>,
                                           range.startIndex, range.endIndex, ok))
             /\ IF ok
                THEN /\ doc' = UpdateTextStyle(doc, range)
                     /\ pc' = "save_last_seen_id"
                     /\ UNCHANGED <<exit, failures>>
                ELSE /\ Raised
                     /\ UNCHANGED doc
    /\ UNCHANGED <<tweets, envId, envRunDate, nowYear, last_seen_id,
                   last_run_date, now, user_tweets, i, stdout, inserted, runs>>
    /\ UNCHANGED credentials
    /\ UNCHANGED textVars

\* print("Tweet exported to doc."); save_last_seen_id(tweet["id"]); next tweet
SaveLastSeenId ==
    /\ pc = "save_last_seen_id"
    /\ envId' = Tweet.id
    /\ stdout' = stdout \o <<"Tweet exported to doc.", "Saved last seen tweet ID">>
    /\ log' = Append(log, Request("save_last_seen_id", Tweet.id, <<>>, 0, 0, TRUE))
    /\ i' = i + 1
    /\ pc' = "loop"
    /\ UNCHANGED <<tweets, envRunDate, nowYear, doc, last_seen_id,
                   last_run_date, now, user_tweets, exit, inserted, runs, failures>>
    /\ UNCHANGED <<credentials, abandoned>>
    /\ UNCHANGED textVars

----------------------------------------------------------------------------
(* The text pipeline of one tweet: match, format, insert at index 6 *)

ExampleText ==
    <<"W", "h", "y", " ", "d", "i", "d", " ", "X", "\n", "\n",
      "B", "e", "c", "a", "u", "s", "e", " ", "Y">>
ExampleDate == [year |-> 2024, month |-> 1, day |-> 2]

Texts == UNION {[1..k -> Alphabet] : k \in 0..MaxLen} \cup {ExampleText}
Dates == {ExampleDate, [year |-> FirstYear, month |-> 12, day |-> 31]}

TextIdle ==
    /\ tStage = "off"
    /\ tText = <<>>
    /\ tCreated = ExampleDate
    /\ tResult = NoMatch
    /\ tFormatted = <<>>
    /\ tDoc = <<>>

TextInit ==
    /\ tStage = "input"
    /\ tText \in Texts
    /\ tCreated \in Dates
    /\ tResult = NoMatch
    /\ tFormatted = <<>>
    /\ tDoc = HeaderDoc(FirstYear)

\* result = pun_format_regex.match(tweet["text"])
TextMatch ==
    /\ tStage = "input"
    /\ tResult' = pun_format_regex_match(tText)
    /\ tStage' = IF tResult'.matched THEN "matched" ELSE "skipped"
    /\ UNCHANGED <<tText, tCreated, tFormatted, tDoc, runVars>>

\* The body of the loop of archive_tweets for a pun, every request accepted
TextExport ==
    /\ tStage = "matched"
    /\ LET date == strftime(tCreated)
           formatted_tweet == format_tweet(date, tResult.group1, tResult.group2)
           d1 == InsertText(tDoc, formatted_tweet, 6)
           d2 == UpdateParagraphStyle(d1, ParagraphRange(date, tResult.group1, tResult.group2))
           d3 == UpdateTextStyle(d2, ItalicRange(date, tResult.group1, tResult.group2))
       IN  /\ tFormatted' = formatted_tweet
           /\ tDoc' = d3
    /\ tStage' = "exported"
    /\ UNCHANGED <<tText, tCreated, tResult, runVars>>

----------------------------------------------------------------------------
(* Specifications *)

Init == RunInit /\ TextIdle

Next ==
    \/ PostTweet
    \/ NewYear
    \/ Main
    \/ DocUpdateYear
    \/ ArchiveSkip
    \/ ArchiveReturn
    \/ DocAddText
    \/ DocFormatText
    \/ DocItalicizePunchline
    \/ SaveLastSeenId

Spec == Init /\ [][Next]_vars

InitText == RunInit /\ TextInit

NextText ==
    \/ TextMatch
    \/ TextExport

SpecText == InitText /\ [][NextText]_vars

----------------------------------------------------------------------------
(* Properties of a run (under Spec) *)

IsPostInsert(r) == r.op = "insertText" /\ r.id # 0
IsYearInsert(r) == r.op = "insertText" /\ r.id = 0
IsEdit(r) == r.op \in {"insertText", "updateParagraphStyle", "updateTextStyle"}
IsSave(r) == r.op = "save_last_seen_id"

PostInserts == SelectSeq(log, IsPostInsert)

\* The run got past doc_update_year (it may have ended since).
ReachedArchiving ==
    \/ pc \notin {"idle", "doc_update_year"}
    \/ pc = "idle" /\ exit \in {"return", "exception"} /\ runs > 0
         /\ user_tweets.meta.result_count > 0

\* C1: a run issues no insert-text request for a post whose id is at or
\* below the watermark it read at its start.
C1_NoReemitAtOrBelowWatermark ==
    \A k \in 1..Len(log) :
        IsPostInsert(log[k]) => log[k].id > last_seen_id

C1_Witness ==
    /\ last_seen_id > 0
    /\ \E p \in 1..Len(tweets) :
          tweets[p].id <= last_seen_id /\ pun_format_regex_match(tweets[p].text).matched
    /\ \E k \in 1..Len(log) : IsPostInsert(log[k]) /\ log[k].ok

\* C2: over any sequence of runs, failed ones included, the text of each post
\* is inserted into the document at most once.
C2_InsertedAtMostOnce == \A id \in DOMAIN inserted : inserted[id] <= 1

\* C3: the persisted watermark never decreases: every step, and so every
\* save_last_seen_id of every run, leaves it at least as large as it was.
C3_WatermarkNeverDecreases == [][envId' >= envId]_vars

C3_Witness ==
    /\ exit = "exception"
    /\ last_seen_id > 0
    /\ envId > last_seen_id

\* C4: a run over a page of puns in which no request fails inserts them
\* oldest first and ends with the watermark at the newest post of the page.
C4_OldestFirstThenNewestWatermark ==
    (/\ pc = "idle"
     /\ exit = "return"
     /\ Len(user_tweets.data) > 0
     /\ \A p \in 1..Len(user_tweets.data) :
           pun_format_regex_match(user_tweets.data[p].text).matched)
    => /\ Len(PostInserts) = Len(user_tweets.data)
       /\ \A a, b \in 1..Len(PostInserts) :
             a < b => PostInserts[a].id < PostInserts[b].id
       /\ \A a \in 1..Len(PostInserts) :
             PostInserts[a].id = user_tweets.data[Len(user_tweets.data) + 1 - a].id
       /\ envId = user_tweets.data[1].id

C4_Witness ==
    /\ pc = "idle"
    /\ exit = "return"
    /\ Len(user_tweets.data) = 2
    /\ \A p \in 1..2 : pun_format_regex_match(user_tweets.data[p].text).matched
    /\ Len(PostInserts) = 2

\* C5: a run whose fetch reports result_count = 0 ends at once: no document
\* request, no save, the document, the watermark and the last-run date as
\* they were, and "No new tweets found." printed.
C5_NoResultsNoEffect ==
    [][(/\ runs' = runs + 1
        /\ failures' = failures
        /\ user_tweets'.meta.result_count = 0)
       => /\ pc' = "idle"
          /\ exit' = "return"
          /\ log' = <<>>
          /\ doc' = doc
          /\ envId' = envId
          /\ envRunDate' = envRunDate
          /\ stdout' # <<>>
          /\ stdout'[Len(stdout')] = "No new tweets found."]_vars

C5_Witness ==
    /\ runs > 0
    /\ pc = "idle"
    /\ exit = "return"
    /\ user_tweets.meta.result_count = 0
    /\ Len(tweets) > 0
    /\ stdout = <<"Last seen tweet ID", "No new tweets found.">>

\* C6: in a run that reaches archiving, when the current year is greater than
\* the year of last_run_date the request that inserts the year and a newline
\* at index 1 is issued exactly once, before every post insert; when the
\* years are equal no year header is inserted.
C6_YearHeaderOnceAndFirst ==
    ReachedArchiving =>
        LET headers == {k \in 1..Len(log) : log[k].op = "insertText" /\ log[k].startIndex = 1}
        IN  /\ last_run_date.year < now =>
                 /\ headers = {1}
                 /\ log[1].text = YearStr(now)
                 /\ \A k \in 1..Len(log) : IsPostInsert(log[k]) => k > 1
            /\ last_run_date.year = now => headers = {}
            /\ \A k \in 1..Len(log) : IsYearInsert(log[k]) <=> k \in headers

C6_Witness ==
    /\ pc = "save_last_seen_id"
    /\ last_run_date.year < now
    /\ IsYearInsert(log[1]) /\ log[1].ok
    /\ IsPostInsert(log[2]) /\ log[2].ok

\* C10: every save_last_seen_id(X) of a run comes right after the successful
\* insert, paragraph-style and italic requests for X, and every post insert
\* comes right after the save of the post before it (or first, or after the
\* year header).
C10_SaveAfterOwnWriteBeforeNextPost ==
    /\ \A k \in 1..Len(log) :
          IsSave(log[k]) =>
              /\ k >= 4
              /\ log[k - 3].op = "insertText" /\ log[k - 3].id = log[k].id /\ log[k - 3].ok
              /\ log[k - 2].op = "updateParagraphStyle" /\ log[k - 2].id = log[k].id
                   /\ log[k - 2].ok
              /\ log[k - 1].op = "updateTextStyle" /\ log[k - 1].id = log[k].id
                   /\ log[k - 1].ok
    /\ \A k \in 2..Len(log) :
          IsPostInsert(log[k]) =>
              \/ IsSave(log[k - 1])
              \/ k = 2 /\ IsYearInsert(log[1])
    /\ \A k \in 1..Len(log) :
          (IsEdit(log[k]) /\ log[k].id # 0 /\ \E m \in 1..(k - 1) : IsSave(log[m]))
              => log[k].id > log[Max({m \in 1..(k - 1) : IsSave(log[m])})].id

C10_Witness ==
    /\ Len(SelectSeq(log, IsSave)) = 2
    /\ envId = log[Len(log)].id

----------------------------------------------------------------------------
(* Properties of the text pipeline (under SpecText) *)

IsLine(x) == x # <<>> /\ \A p \in 1..Len(x) : x[p] # "\n"

\* The blank-line separators of s: positions of two consecutive newlines
Separators(s) == {p \in 1..(Len(s) - 1) : s[p] = "\n" /\ s[p + 1] = "\n"}

\* Content: at least one character that is no newline
HasContent(x) == \E p \in 1..Len(x) : x[p] # "\n"

\* Without the one newline that may end the text
Chomp(x) == IF x # <<>> /\ x[Len(x)] = "\n" THEN SubSeq(x, 1, Len(x) - 1) ELSE x

PunchlineStart == 6 + Len(Utf16Text(strftime(tCreated) \o <<"\n">> \o tResult.group1 \o <<"\n", "\t">>))
PunchlineEnd == PunchlineStart + Len(Utf16Text(tResult.group2))

\* C8: with the entry inserted at index 6, the italic range is exactly the
\* punchline in the document, the paragraph-style range starts at the first
\* inserted unit and ends inside the inserted text, and for lengths 10, 9, 9
\* the end index is 37 and the italic range [28, 37].
C8_RangesCoverPunchline ==
    tStage = "exported" =>
        LET date == strftime(tCreated)
            italic == ItalicRange(date, tResult.group1, tResult.group2)
            para == ParagraphRange(date, tResult.group1, tResult.group2)
        IN  /\ italic.startIndex = PunchlineStart
            /\ italic.endIndex = PunchlineEnd
            /\ {p \in 1..Len(tDoc) : tDoc[p].italic} = PunchlineStart..(PunchlineEnd - 1)
            /\ para.startIndex = 6
            /\ para.endIndex > 6
            /\ para.endIndex <= 6 + Len(Utf16Text(tFormatted))
            /\ (Len(date) = 10 /\ Len(tResult.group1) = 9 /\ Len(tResult.group2) = 9)
                 => para.endIndex = 37 /\ italic = [startIndex |-> 28, endIndex |-> 37]

\* C9: the lines of format_tweet(date, setup, punchline) are the date, the
\* setup and a tab followed by exactly the punchline.
C9_FormatRoundTrips ==
    tStage = "exported" =>
        LET lines == SplitLines(tFormatted)
        IN  /\ Len(lines) >= 3
            /\ lines[1] = strftime(tCreated)
            /\ lines[2] = tResult.group1
            /\ lines[3] # <<>>
            /\ Head(lines[3]) = "\t"
            /\ Tail(lines[3]) = tResult.group2

C9_Witness ==
    /\ tStage = "exported"
    /\ Head(tResult.group2) = "\t"
    /\ Len(tResult.group2) > 1

----------------------------------------------------------------------------
(* Properties of failed and repeated runs (under Spec) *)

Saves == {k \in 1..Len(log) : IsSave(log[k])}

\* C11: a document request that fails is the last thing the run does: no
\* request and no save follows it, and the persisted watermark stays at the
\* last post saved before the failure, or at its value at the start of the run.
C11_FailedEditEndsRun ==
    /\ \A k \in 1..Len(log) : ~log[k].ok => k = Len(log)
    /\ (log # <<>> /\ ~log[Len(log)].ok) =>
          /\ pc = "idle"
          /\ exit = "exception"
          /\ envId = IF Saves = {} THEN last_seen_id ELSE log[Max(Saves)].id

C11_Witness ==
    /\ log # <<>>
    /\ ~log[Len(log)].ok
    /\ Saves # {}
    /\ log[Len(log)].id > envId

\* C12: the puns an aborted run left unsaved have ids above the persisted
\* watermark, and the next run that ends without a failure inserts each of
\* them.
C12_AbandonedArchivedByNextRun ==
    /\ (pc = "idle" /\ exit = "exception") =>
          \A id \in abandoned : id > envId
    /\ (pc = "idle" /\ exit = "return") =>
          \A id \in abandoned :
              \E k \in 1..Len(log) :
                  IsPostInsert(log[k]) /\ log[k].id = id /\ log[k].ok

\* The puns this run saved
Archived == {log[k].id : k \in Saves}

\* C13: after a run that archives at least one post, the persisted
\* LAST_RUN_DATE is the date of that run (here: its year).
C13_RunDateSavedAfterArchive ==
    (pc = "idle" /\ exit = "return" /\ Archived # {}) => envRunDate.year = now

\* C14: a run with invalid credentials ends with main returning 1 before any
\* fetch, document request or save; main returns 1 in no other case.
C14_AuthFailureReturnsOne ==
    (pc = "idle" /\ runs > 0) =>
        /\ credentials = "invalid" =>
              /\ exit = "return 1"
              /\ log = <<>>
              /\ envId = last_seen_id
        /\ exit = "return 1" => credentials = "invalid"

\* C15: a fetched post that is no pun is skipped silently: the step issues
\* no request and no save, prints nothing, leaves the document and the
\* persisted watermark as they were, and the loop moves to the next post.
C15_NonPunSkipped ==
    [][(pc = "loop" /\ i <= Len(user_tweets.data) /\ ~Result.matched)
       => /\ log' = log
          /\ doc' = doc
          /\ envId' = envId
          /\ stdout' = stdout
          /\ exit' = exit
          /\ pc' = "loop"
          /\ i' = i + 1]_vars

C15_Witness ==
    /\ pc = "loop"
    /\ i > 1
    /\ i <= Len(user_tweets.data)
    /\ ~pun_format_regex_match(reversed(user_tweets.data)[i - 1].text).matched
    /\ Result.matched

----------------------------------------------------------------------------
(* The layout of the document (under Spec) *)

DocLines == SplitLines(DocText(doc))

IsDigit(c) == \E n \in 0..9 : Digit(n) = c
DigitValue(c) == CHOOSE n \in 0..9 : Digit(n) = c

\* A year header: four digits
IsYearLine(l) == Len(l) = 4 /\ \A p \in 1..4 : IsDigit(l[p])
\* The first line of an entry: MM/DD/YYYY
IsDateLine(l) == Len(l) = 10 /\ l[3] = "/" /\ l[6] = "/"

YearOf(digits) ==
    1000 * DigitValue(digits[1]) + 100 * DigitValue(digits[2])
        + 10 * DigitValue(digits[3]) + DigitValue(digits[4])

\* The lines at which an entry starts, and the post an entry holds
Entries == {k \in 1..(Len(DocLines) - 2) : IsDateLine(DocLines[k])}
EntryId(k) == DigitValue(DocLines[k + 1][1])
Headers == {k \in 1..Len(DocLines) : IsYearLine(DocLines[k])}

\* C16: while no call has failed, the document starts with a year header,
\* every pun just inserted stands right after that header, and the entries
\* stand newest first (decreasing id) from the top of the document down.
C16_NewestFirstAfterTopHeader ==
    failures = 0 =>
        /\ 1 \in Headers
        /\ pc \in {"doc_format_text", "doc_italicize_punchline", "save_last_seen_id"}
              => 2 \in Entries /\ EntryId(2) = Tweet.id
        /\ \A a, b \in Entries : a < b => EntryId(a) > EntryId(b)

C16_Witness ==
    /\ failures = 0
    /\ pc = "idle"
    /\ exit = "return"
    /\ Cardinality(Entries) = 3
    /\ Cardinality(Headers) > 1


\* C17: no year stands as a header in the document more than once, however
\* many runs take place within that year.
C17_YearHeaderAtMostOnce ==
    \A a, b \in Headers : DocLines[a] = DocLines[b] => a = b


\* The posts the document holds an entry of
InDocument == {EntryId(k) : k \in Entries}

\* C18: after a run of a history without failures has returned, every pun
\* the account tweeted with an id at or below the saved watermark, which no
\* later run fetches, has its entry in the document.
C18_NoMatchingPostLost ==
    (pc = "idle" /\ exit = "return" /\ failures = 0) =>
        \A p \in 1..Len(tweets) :
            (/\ tweets[p].kind = "tweet"
             /\ pun_format_regex_match(tweets[p].text).matched
             /\ tweets[p].id <= envId) => tweets[p].id \in InDocument

\* C19: the nearest year header above every entry of the document is the
\* year of the entry's date.
C19_EntryUnderItsOwnYear ==
    \A k \in Entries :
        LET above == {h \in Headers : h < k}
        IN  /\ above # {}
            /\ YearOf(DocLines[Max(above)]) = YearOf(SubSeq(DocLines[k], 7, 10))

====
